---- MODULE Spec2Model ----
(***************************************************************************)
(* CPA 005 export of the EFT generator: validateConfig,                    *)
(* validateTransactions, validateCPA005, formatHeader and formatToCPA005.  *)
(*                                                                         *)
(* Text is modelled by TLA+ strings (Len, \o, SubSeq, Head, Tail).  A      *)
(* dollar amount is an exact decimal [d |-> whole dollars, m |-> 0..999    *)
(* thousandths], so that amount * 100 and Math.round are computed without  *)
(* leaving 32-bit integers; amounts that sit exactly on a half cent are    *)
(* not drawn, because there a binary double and the decimal differ.        *)
(***************************************************************************)
EXTENDS Integers, Sequences, FiniteSets, TLC

VARIABLES
    config,                 \* the generator's configuration object
    transactions,           \* the generator's transaction list
    today,                  \* what new Date() yields during the call
    callConfig,             \* the configuration as it was when export was called
    callTransactions,       \* the transaction list as it was then
    pc,                     \* position inside formatToCPA005
    error,                  \* message of the Error thrown, "" when none
    configWarnings,         \* value returned by validateConfig
    txWarnings,             \* warningCount local to validateTransactions
    crossReferenceNumbers,  \* the Set local to validateTransactions
    vIndex,                 \* transaction the validation loop is at
    warningCount,           \* warningCount local to formatToCPA005
    outputLines,
    recordCount,
    record,
    txIndex,                \* transaction the encoding loop is at
    segmentIndex,
    totalValueDebits,
    totalNumberDebits,
    totalValueCredits,
    totalNumberCredits,
    returned,               \* TRUE once formatToCPA005 has returned a text
    result                  \* the text returned

vars == << config, transactions, today, callConfig, callTransactions, pc, error, configWarnings,
           txWarnings, crossReferenceNumbers, vIndex, warningCount,
           outputLines, recordCount, record, txIndex, segmentIndex,
           totalValueDebits, totalNumberDebits, totalValueCredits,
           totalNumberCredits, returned, result >>

(***************************************************************************)
(* Bounds of the input space.                                              *)
(***************************************************************************)
MaxTransactions == 3
MaxSegments == 13

(***************************************************************************)
(* JavaScript string and number primitives.                                *)
(***************************************************************************)
Undefined == "undefined"
UndefinedDate == [year |-> 0 - 1, day |-> 0 - 1]

Min(a, b) == IF a < b THEN a ELSE b
Max(a, b) == IF a > b THEN a ELSE b

DigitChar(d) == SubSeq("0123456789", d + 1, d + 1)

RECURSIVE toString(_)
toString(n) ==
    IF n < 10 THEN DigitChar(n) ELSE toString(n \div 10) \o DigitChar(n % 10)

RECURSIVE Repeat(_, _)
Repeat(c, n) ==
    IF n <= 0 THEN ""
    ELSE LET h == Repeat(c, n \div 2)
         IN  IF n % 2 = 0 THEN h \o h ELSE h \o h \o c

padStart(s, n, c) == IF Len(s) >= n THEN s ELSE Repeat(c, n - Len(s)) \o s
padEnd(s, n, c) == IF Len(s) >= n THEN s ELSE s \o Repeat(c, n - Len(s))

\* s.slice(0, n)
sliceTo(s, n) == SubSeq(s, 1, Min(n, Len(s)))
\* s.slice(-n)
sliceLast(s, n) == SubSeq(s, Max(1, Len(s) - n + 1), Len(s))

RECURSIVE AllDigits(_)
AllDigits(s) ==
    \/ s = ""
    \/ /\ Head(s) \in {"0", "1", "2", "3", "4", "5", "6", "7", "8", "9"}
       /\ AllDigits(Tail(s))

\* /^\d{lo,hi}$/.test(s)
TestDigits(s, lo, hi) == Len(s) >= lo /\ Len(s) <= hi /\ AllDigits(s)

\* Math.round(amount * 100) as [hi |-> cents \div 100, lo |-> cents % 100]
RoundCents(amount) ==
    LET c == (amount.m + 5) \div 10
    IN  [hi |-> amount.d + (c \div 100), lo |-> c % 100]

\* Math.round(amount * 100).toString()
CentsToString(amount) ==
    LET r == RoundCents(amount)
    IN  IF r.hi = 0 THEN toString(r.lo)
        ELSE toString(r.hi) \o padStart(toString(r.lo), 2, "0")

\* a + b on dollar amounts
AddAmount(a, b) ==
    [d |-> a.d + b.d + ((a.m + b.m) \div 1000), m |-> (a.m + b.m) % 1000]

ZeroAmount == [d |-> 0, m |-> 0]

\* amount <= 0
AmountNotPositive(amount) == amount.d < 0 \/ (amount.d = 0 /\ amount.m = 0)
\* amount > 100_000_000
AmountTooLargeExclusive(amount) == amount.d > 100000000
\* amount >= 100_000_000
AmountTooLarge(amount) == amount.d >= 100000000

toJulianDate(date) ==
    "0" \o padStart(toString(date.year % 100), 2, "0")
        \o padStart(toString(date.day), 3, "0")

\* date ?? new Date()
DateOrToday(date) == IF date = UndefinedDate THEN today ELSE date

CPACodeTable == {200, 250, 450, 460, 700}
isValidCPACode(cpaCode) == cpaCode \in CPACodeTable

getConfiguration == config
getTransactions == transactions

(***************************************************************************)
(* Inputs: configurations and transaction lists the caller may hand over.  *)
(***************************************************************************)
LongName31 == "The Corporation of Example City"
ShortName16 == "Example City Inc"
LongPayee == "Payee with a name beyond thirty characters"

BaseConfig ==
    [ originatorId          |-> "0000012345",
      originatorShortName   |-> Undefined,
      originatorLongName    |-> "Test Co",
      fileCreationNumber    |-> "0001",
      fileCreationDate      |-> UndefinedDate,
      destinationDataCentre |-> Undefined,
      destinationCurrency   |-> Undefined ]

NamedConfig == [BaseConfig EXCEPT !.originatorShortName = "TestCo"]

ConfigVariants(c) ==
    {c}
    \cup {[c EXCEPT !.originatorId = v] : v \in {"123", "1234567", "00000123456"}}
    \cup {[c EXCEPT !.originatorShortName = v] : v \in {ShortName16}}
    \cup {[c EXCEPT !.originatorLongName = v] : v \in {LongName31}}
    \cup {[c EXCEPT !.fileCreationNumber = v] : v \in {"7", "12345", "12a", ""}}
    \cup {[c EXCEPT !.fileCreationDate = v] : v \in {[year |-> 2024, day |-> 60]}}
    \cup {[c EXCEPT !.destinationDataCentre = v] : v \in {"610", "", "61x", "123456"}}
    \cup {[c EXCEPT !.destinationCurrency = v] : v \in {"CAD", "USD", "EUR"}}

Configs == ConfigVariants(BaseConfig) \cup ConfigVariants(NamedConfig)

Dates == {[year |-> 2023, day |-> 7]}

\* the segment a caller puts at position i of a transaction of type rt
Segment(rt, i) ==
    [ cpaCode               |-> IF i % 5 = 0 THEN 999 ELSE 450,
      amount                |-> [d |-> i, m |-> 340],
      paymentDate           |-> IF i % 2 = 0 THEN [year |-> 2023, day |-> 40 + i]
                                ELSE UndefinedDate,
      bankInstitutionNumber |-> IF i % 3 = 0 THEN "12" ELSE "001",
      bankTransitNumber     |-> IF i % 3 = 1 THEN "12345" ELSE "678",
      bankAccountNumber     |-> "123456789",
      itemTraceNumber       |-> Undefined,
      payeeName             |-> IF i % 4 = 3 THEN LongPayee
                                ELSE "Payee " \o toString(i),
      crossReferenceNumber  |-> IF i % 2 = 1 THEN Undefined
                                ELSE (IF rt = "C" THEN "REF" ELSE "DEF")
                                     \o toString(i % 6) ]

SegmentKinds ==
    { "none", "amountZero", "amountNegative", "amountLimit", "amountMax",
      "amountSubCentHigh", "amountSubCent", "amountSample", "institution",
      "transit", "account", "amountAndAccount", "cpaShort", "cpaLong",
      "trace", "traceShort", "xrefLong", "xrefSame", "amongBadAccounts" }

Vary(s, kind) ==
    CASE kind = "amountZero"        -> [s EXCEPT !.amount = [d |-> 0, m |-> 0]]
      [] kind = "amountNegative"    -> [s EXCEPT !.amount = [d |-> 0 - 1, m |-> 0]]
      [] kind = "amountLimit"       -> [s EXCEPT !.amount = [d |-> 100000000, m |-> 0]]
      [] kind = "amountMax"         -> [s EXCEPT !.amount = [d |-> 99999999, m |-> 990]]
      [] kind = "amountSubCentHigh" -> [s EXCEPT !.amount = [d |-> 99999999, m |-> 999]]
      [] kind = "amountSubCent"     -> [s EXCEPT !.amount = [d |-> 0, m |-> 4]]
      [] kind = "amountSample"      -> [s EXCEPT !.amount = [d |-> 12, m |-> 340]]
      [] kind = "institution"       -> [s EXCEPT !.bankInstitutionNumber = "1234"]
      [] kind = "transit"           -> [s EXCEPT !.bankTransitNumber = "12x"]
      [] kind = "account"           -> [s EXCEPT !.bankAccountNumber = ""]
      [] kind = "amountAndAccount"  -> [s EXCEPT !.amount = [d |-> 0, m |-> 0],
                                                 !.bankAccountNumber = "1234567890123"]
      [] kind = "cpaShort"          -> [s EXCEPT !.cpaCode = 5]
      [] kind = "cpaLong"           -> [s EXCEPT !.cpaCode = 1000]
      [] kind = "trace"             -> [s EXCEPT !.itemTraceNumber = "ATB000000000000123"]
      [] kind = "traceShort"        -> [s EXCEPT !.itemTraceNumber = "ATB"]
      [] kind = "xrefLong"          -> [s EXCEPT !.crossReferenceNumber = "INVOICE-2023-0000000017"]
      [] kind = "xrefSame"          -> [s EXCEPT !.crossReferenceNumber = "REF2"]
      [] OTHER                      -> s

SegmentCounts == {0, 1, 2, 6, 7, 12, MaxSegments}

\* a transaction of n segments whose segment at position p is varied; with
\* kind "amongBadAccounts" every other segment has a bad account number
Transaction(rt, n, kind, p) ==
    [ recordType |-> rt,
      segments   |-> [i \in 1..n |->
                        IF kind = "amongBadAccounts"
                        THEN Vary(Segment(rt, i),
                                  IF i = p THEN "amountZero" ELSE "account")
                        ELSE IF i = p THEN Vary(Segment(rt, i), kind)
                        ELSE Segment(rt, i)] ]

\* the transaction a caller puts at position j of an unremarkable list
BaseTransaction(j) ==
    Transaction(IF j % 2 = 1 THEN "C" ELSE "D",
                IF j % 3 = 1 THEN 2 ELSE IF j % 3 = 2 THEN 7 ELSE 1,
                "none", 0)

\* the same, with a transit number that validation rejects
BadTransaction(j) ==
    Transaction(IF j % 2 = 1 THEN "C" ELSE "D", 2, "transit", 2)

Choices ==
    { q \in (1..MaxTransactions) \X {"C", "D", "X"} \X SegmentCounts
            \X SegmentKinds \X (1..MaxSegments) \X BOOLEAN :
        /\ q[5] \in {1, q[3]}
        /\ q[4] # "none" => q[3] \in {1, 7}
        /\ q[2] = "X" => (q[3] \in {0, 1} /\ q[4] \in {"none", "amountZero"})
        /\ q[6] => (q[3] \in {0, 7} /\ q[4] \in {"none", "amountLimit", "cpaShort",
                                                "amongBadAccounts"}) }

\* lists of n transactions in which the one at position q[1] is chosen freely
\* and, when q[6], the last one is rejected by validation
TransactionLists ==
    {<< >>} \cup
    { [j \in 1..n |-> IF j = q[1] THEN Transaction(q[2], q[3], q[4], q[5])
                      ELSE IF q[6] /\ j = n THEN BadTransaction(j)
                      ELSE BaseTransaction(j)] :
        n \in 1..MaxTransactions, q \in Choices }

\* a few lists to go with every configuration
SampleLists ==
    { << >>,
      << Transaction("C", 1, "amountSample", 1) >>,
      << Transaction("D", 2, "account", 2) >>,
      << Transaction("C", 7, "none", 0), Transaction("D", 1, "none", 0) >> }

(***************************************************************************)
(* validateConfig                                                          *)
(***************************************************************************)
NoError == ""

\* the long name written over the short name, absent or not
OverwriteShortName(eftConfig) ==
    [eftConfig EXCEPT !.originatorShortName = eftConfig.originatorLongName]

\* lines 32-36: the default written back into the configuration object
DefaultShortName(eftConfig) ==
    IF eftConfig.originatorShortName = Undefined
    THEN [eftConfig EXCEPT !.originatorShortName = eftConfig.originatorLongName]
    ELSE eftConfig

\* line 52
SupportedCurrency(eftConfig) ==
    (IF eftConfig.destinationCurrency = Undefined THEN ""
     ELSE eftConfig.destinationCurrency) \in {"", "CAD", "USD"}

validateConfig(eftConfig) ==
    IF Len(eftConfig.originatorId) > 10
    THEN [error |-> "originatorId length exceeds 10",
          config |-> eftConfig, warningCount |-> 0]
    ELSE IF ~TestDigits(eftConfig.fileCreationNumber, 1, 4)
    THEN [error |-> "fileCreationNumber should be 1 to 4 digits",
          config |-> eftConfig, warningCount |-> 0]
    ELSE IF ~TestDigits(IF eftConfig.destinationDataCentre = Undefined THEN ""
                        ELSE eftConfig.destinationDataCentre, 0, 5)
    THEN [error |-> "destinationDataCentre should be 1 to 5 digits",
          config |-> eftConfig, warningCount |-> 0]
    ELSE LET filled == DefaultShortName(eftConfig)
             w1 == IF eftConfig.originatorShortName = Undefined THEN 1 ELSE 0
             w2 == IF Len(filled.originatorShortName) > 15 THEN 1 ELSE 0
             w3 == IF Len(filled.originatorLongName) > 30 THEN 1 ELSE 0
         IN  IF ~SupportedCurrency(filled)
             THEN [error |-> "Unsupported destinationCurrency",
                   config |-> filled, warningCount |-> w1 + w2 + w3]
             ELSE [error |-> NoError,
                   config |-> filled, warningCount |-> w1 + w2 + w3]

(***************************************************************************)
(* validateTransactions                                                    *)
(***************************************************************************)
TransactionLimit == 999999999

\* the number looked up after it was added to the set
RepeatedAfterAdd(segment, seen) ==
    /\ segment.crossReferenceNumber # Undefined
    /\ segment.crossReferenceNumber \in seen \cup {segment.crossReferenceNumber}

\* lines 132-133: a supplied number that the set already has
Repeated(segment, seen) ==
    /\ segment.crossReferenceNumber # Undefined
    /\ segment.crossReferenceNumber \in seen

\* lines 92-140: one pass of the segment loop; seen is crossReferenceNumbers
validateSegment(segment, seen) ==
    LET w1 == IF ~isValidCPACode(segment.cpaCode) THEN 1 ELSE 0
        w2 == IF Len(segment.payeeName) > 30 THEN 1 ELSE 0
        supplied == segment.crossReferenceNumber # Undefined
        w3 == IF Repeated(segment, seen) THEN 1 ELSE 0
        fail(msg) == [error |-> msg, warningCount |-> w1, seen |-> seen]
    IN  IF AmountNotPositive(segment.amount)
        THEN fail("Segment amount cannot be less than or equal to zero")
        ELSE IF AmountTooLarge(segment.amount)
        THEN fail("Segment amount cannot exceed $100,000,000")
        ELSE IF ~TestDigits(segment.bankInstitutionNumber, 1, 3)
        THEN fail("bankInstitutionNumber should be 1 to 3 digits")
        ELSE IF ~TestDigits(segment.bankTransitNumber, 1, 5)
        THEN fail("bankTransitNumber should be 1 to 5 digits")
        ELSE IF ~TestDigits(segment.bankAccountNumber, 1, 12)
        THEN fail("bankAccountNumber should be 1 to 12 digits")
        ELSE [error |-> NoError,
              warningCount |-> w1 + w2 + w3,
              seen |-> IF supplied
                       THEN seen \cup {segment.crossReferenceNumber}
                       ELSE seen]

\* lines 91-141: the segment loop from position i on
RECURSIVE validateSegments(_, _, _)
validateSegments(segments, i, acc) ==
    IF i > Len(segments) THEN acc
    ELSE LET r == validateSegment(segments[i], acc.seen)
             next == [error |-> r.error,
                      warningCount |-> acc.warningCount + r.warningCount,
                      seen |-> r.seen]
         IN  IF r.error # NoError THEN next
             ELSE validateSegments(segments, i + 1, next)

\* lines 75-141: one pass of the transaction loop
validateTransaction(transaction, seen) ==
    LET w1 == IF Len(transaction.segments) = 0 THEN 1 ELSE 0
        w2 == IF Len(transaction.segments) > 6 THEN 1 ELSE 0
    IN  IF transaction.recordType \notin {"C", "D"}
        THEN [error |-> "Unsupported recordType",
              warningCount |-> w1 + w2, seen |-> seen]
        ELSE validateSegments(transaction.segments, 1,
                 [error |-> NoError, warningCount |-> w1 + w2, seen |-> seen])

(***************************************************************************)
(* State machine: one call of formatToCPA005 on a generator.               *)
(***************************************************************************)
NoCount == 0 - 1

Init ==
    /\ \/ config \in Configs /\ transactions \in SampleLists
       \/ config \in {BaseConfig, NamedConfig} /\ transactions \in TransactionLists
    /\ today \in Dates
    /\ callConfig = config
    /\ callTransactions = transactions
    /\ pc = "validateConfig"
    /\ error = NoError
    /\ configWarnings = NoCount
    /\ txWarnings = 0
    /\ crossReferenceNumbers = {}
    /\ vIndex = 0
    /\ warningCount = NoCount
    /\ outputLines = << >>
    /\ recordCount = 0
    /\ record = ""
    /\ txIndex = 0
    /\ segmentIndex = 0
    /\ totalValueDebits = ZeroAmount
    /\ totalNumberDebits = 0
    /\ totalValueCredits = ZeroAmount
    /\ totalNumberCredits = 0
    /\ returned = FALSE
    /\ result = ""

encodeVars == << outputLines, recordCount, record, txIndex, segmentIndex,
                 totalValueDebits, totalNumberDebits, totalValueCredits,
                 totalNumberCredits, returned, result >>

\* formatToCPA005 line 183 -> validateCPA005 line 149 -> validateConfig
ValidateConfig ==
    /\ pc = "validateConfig"
    /\ LET r == validateConfig(getConfiguration)
       IN  /\ config' = r.config
           /\ IF r.error # NoError
              THEN /\ pc' = "failed"
                   /\ error' = r.error
                   /\ UNCHANGED configWarnings
              ELSE /\ pc' = "validateTransactions"
                   /\ configWarnings' = r.warningCount
                   /\ UNCHANGED error
    /\ UNCHANGED << transactions, today, callConfig, callTransactions, txWarnings,
                    crossReferenceNumbers, vIndex, warningCount >>
    /\ UNCHANGED encodeVars

\* validateTransactions lines 63-72
ValidateTransactionsBegin ==
    /\ pc = "validateTransactions"
    /\ IF Len(getTransactions) = 0
       THEN txWarnings' = 1 /\ pc' = "validateLoop" /\ UNCHANGED error
       ELSE IF Len(getTransactions) > TransactionLimit
       THEN /\ pc' = "failed"
            /\ error' = "Transaction count exceeds 999,999,999."
            /\ UNCHANGED txWarnings
       ELSE txWarnings' = 0 /\ pc' = "validateLoop" /\ UNCHANGED error
    /\ crossReferenceNumbers' = {}
    /\ vIndex' = 1
    /\ UNCHANGED << config, transactions, today, callConfig, callTransactions,
                    configWarnings,
                    warningCount >>
    /\ UNCHANGED encodeVars

\* validateTransactions lines 74-142, one transaction
ValidateTransaction ==
    /\ pc = "validateLoop"
    /\ vIndex <= Len(getTransactions)
    /\ LET r == validateTransaction(getTransactions[vIndex], crossReferenceNumbers)
       IN  /\ txWarnings' = txWarnings + r.warningCount
           /\ crossReferenceNumbers' = r.seen
           /\ IF r.error # NoError
              THEN pc' = "failed" /\ error' = r.error /\ UNCHANGED vIndex
              ELSE vIndex' = vIndex + 1 /\ UNCHANGED << pc, error >>
    /\ UNCHANGED << config, transactions, today, callConfig, callTransactions,
                    configWarnings,
                    warningCount >>
    /\ UNCHANGED encodeVars

\* validateTransactions line 144, validateCPA005 lines 148-151,
\* formatToCPA005 lines 183-187
ValidateReturn ==
    /\ pc = "validateLoop"
    /\ vIndex > Len(getTransactions)
    /\ warningCount' = configWarnings + txWarnings
    /\ pc' = "formatHeader"
    /\ UNCHANGED << config, transactions, today, callConfig, callTransactions, error,
                    configWarnings, txWarnings, crossReferenceNumbers, vIndex >>
    /\ UNCHANGED encodeVars

(***************************************************************************)
(* formatHeader and formatToCPA005                                         *)
(***************************************************************************)
RecordLength == 1464

formatHeader(eftConfig) ==
    LET fileCreationJulianDate ==
            toJulianDate(DateOrToday(eftConfig.fileCreationDate))
        dataCentre ==
            IF eftConfig.destinationDataCentre # Undefined
            THEN padStart(eftConfig.destinationDataCentre, 5, "0")
            ELSE padEnd("", 5, " ")
        destinationCurrency ==
            IF eftConfig.destinationCurrency # Undefined
            THEN eftConfig.destinationCurrency
            ELSE padEnd("", 3, " ")
    IN  "A" \o padStart("1", 9, "0")
            \o padEnd(eftConfig.originatorId, 10, " ")
            \o sliceLast(padStart(eftConfig.fileCreationNumber, 4, "0"), 4)
            \o fileCreationJulianDate
            \o dataCentre
            \o padEnd("", 20, " ")
            \o destinationCurrency
            \o padEnd("", 1406, " ")

\* a new physical record every seven segments
StartsRecordEverySeven(index) == index % 7 = 0

\* line 212: the segment index opens a new physical record
StartsRecord(index) == index % 6 = 0

\* lines 225-229
RecordPrefix(eftConfig, recordType, count) ==
    recordType \o padStart(toString(count), 9, "0")
               \o padEnd(eftConfig.originatorId, 10, " ")
               \o padStart(eftConfig.fileCreationNumber, 4, "0")

\* the fallback with the 0-based segment index
CrossReferenceNumberZeroBased(eftConfig, segment, count, index) ==
    IF segment.crossReferenceNumber = Undefined
    THEN "f" \o eftConfig.fileCreationNumber
             \o "r" \o toString(count)
             \o "s" \o toString(index)
    ELSE segment.crossReferenceNumber

\* lines 236-246
CrossReferenceNumber(eftConfig, segment, count, index) ==
    IF segment.crossReferenceNumber = Undefined
    THEN "f" \o eftConfig.fileCreationNumber
             \o "r" \o toString(count)
             \o "s" \o toString(index + 1)
    ELSE segment.crossReferenceNumber

\* lines 260-262
ItemTrace(segment, index) ==
    IF segment.itemTraceNumber = Undefined THEN padStart("", 22, "0")
    ELSE segment.itemTraceNumber \o padStart(toString(index + 1), 4, "0")

\* lines 248-274: the text one segment appends to the record
SegmentText(eftConfig, segment, count, index) ==
    LET originatorShortName ==
            IF eftConfig.originatorShortName = Undefined
            THEN eftConfig.originatorLongName
            ELSE eftConfig.originatorShortName
    IN  toString(segment.cpaCode)
            \o padStart(CentsToString(segment.amount), 10, "0")
            \o toJulianDate(DateOrToday(segment.paymentDate))
            \o padStart(segment.bankInstitutionNumber, 4, "0")
            \o padStart(segment.bankTransitNumber, 5, "0")
            \o padEnd(segment.bankAccountNumber, 12, " ")
            \o ItemTrace(segment, index)
            \o padStart("", 3, "0")
            \o sliceTo(padEnd(originatorShortName, 15, " "), 15)
            \o sliceTo(padEnd(segment.payeeName, 30, " "), 30)
            \o sliceTo(padEnd(eftConfig.originatorLongName, 30, " "), 30)
            \o padEnd(sliceTo(eftConfig.originatorId, 5), 10, " ")
            \o sliceTo(padEnd(CrossReferenceNumber(eftConfig, segment, count, index),
                              19, " "), 19)
            \o padEnd("", 9, " ")
            \o padEnd("", 12, " ")
            \o padEnd("", 15, " ")
            \o padEnd("", 22, " ")
            \o padEnd("", 2, " ")
            \o padStart("", 11, "0")

\* the record count without the trailer itself
TrailerSequenceLastRecord(count) == count

\* line 290
TrailerSequence(count) == count + 1

\* lines 288-301
formatTrailer(eftConfig, count, valueDebits, numberDebits, valueCredits, numberCredits) ==
    "Z" \o padStart(toString(TrailerSequence(count)), 9, "0")
        \o padEnd(eftConfig.originatorId, 10, " ")
        \o sliceLast(padStart(eftConfig.fileCreationNumber, 4, "0"), 4)
        \o padStart(CentsToString(valueDebits), 14, "0")
        \o padStart(toString(numberDebits), 8, "0")
        \o padStart(CentsToString(valueCredits), 14, "0")
        \o padStart(toString(numberCredits), 8, "0")
        \o padEnd("", 1396, " ")

\* lines.join(sep)
RECURSIVE join(_, _)
join(lines, sep) ==
    IF Len(lines) = 0 THEN ""
    ELSE IF Len(lines) = 1 THEN lines[1]
    ELSE join(SubSeq(lines, 1, Len(lines) - 1), sep) \o sep \o lines[Len(lines)]

\* the record emitted whether or not a segment opened one
RecordAlwaysPending(rec) == TRUE

\* line 283: the record of the transaction just walked is emitted
RecordPending(rec) == rec # ""

validationVars == << config, transactions, today, callConfig,
                     callTransactions, error,
                     configWarnings, txWarnings, crossReferenceNumbers,
                     vIndex, warningCount >>

\* formatToCPA005 lines 189-202
FormatHeader ==
    /\ pc = "formatHeader"
    /\ outputLines' = Append(outputLines, formatHeader(getConfiguration))
    /\ recordCount' = 1
    /\ record' = ""
    /\ totalValueDebits' = ZeroAmount
    /\ totalNumberDebits' = 0
    /\ totalValueCredits' = ZeroAmount
    /\ totalNumberCredits' = 0
    /\ txIndex' = 1
    /\ pc' = "forTransaction"
    /\ UNCHANGED << segmentIndex, returned, result >>
    /\ UNCHANGED validationVars

\* lines 204-208: the next transaction is taken up
BeginTransaction ==
    /\ pc = "forTransaction"
    /\ txIndex <= Len(getTransactions)
    /\ record' = ""
    /\ segmentIndex' = 0
    /\ pc' = "forSegment"
    /\ UNCHANGED << outputLines, recordCount, txIndex, totalValueDebits,
                    totalNumberDebits, totalValueCredits, totalNumberCredits,
                    returned, result >>
    /\ UNCHANGED validationVars

\* lines 209-281: one pass of the segment loop
EncodeSegment ==
    /\ pc = "forSegment"
    /\ segmentIndex < Len(getTransactions[txIndex].segments)
    /\ LET transaction == getTransactions[txIndex]
           segment == transaction.segments[segmentIndex + 1]
           starts == StartsRecord(segmentIndex)
           count == IF starts THEN recordCount + 1 ELSE recordCount
           opened == IF starts
                     THEN RecordPrefix(getConfiguration, transaction.recordType, count)
                     ELSE record
       IN  /\ outputLines' = IF starts /\ segmentIndex > 0
                             THEN Append(outputLines, record)
                             ELSE outputLines
           /\ recordCount' = count
           /\ totalNumberCredits' =
                 IF starts /\ transaction.recordType = "C"
                 THEN totalNumberCredits + 1 ELSE totalNumberCredits
           /\ totalNumberDebits' =
                 IF starts /\ transaction.recordType # "C"
                 THEN totalNumberDebits + 1 ELSE totalNumberDebits
           /\ record' = opened \o SegmentText(getConfiguration, segment, count,
                                              segmentIndex)
           /\ totalValueCredits' =
                 IF transaction.recordType = "C"
                 THEN AddAmount(totalValueCredits, segment.amount)
                 ELSE totalValueCredits
           /\ totalValueDebits' =
                 IF transaction.recordType # "C"
                 THEN AddAmount(totalValueDebits, segment.amount)
                 ELSE totalValueDebits
    /\ segmentIndex' = segmentIndex + 1
    /\ UNCHANGED << pc, txIndex, returned, result >>
    /\ UNCHANGED validationVars

\* lines 283-286: the segment loop is over
EndTransaction ==
    /\ pc = "forSegment"
    /\ segmentIndex >= Len(getTransactions[txIndex].segments)
    /\ outputLines' = IF RecordPending(record)
                      THEN Append(outputLines, padEnd(record, RecordLength, " "))
                      ELSE outputLines
    /\ txIndex' = txIndex + 1
    /\ pc' = "forTransaction"
    /\ UNCHANGED << recordCount, record, segmentIndex, totalValueDebits,
                    totalNumberDebits, totalValueCredits, totalNumberCredits,
                    returned, result >>
    /\ UNCHANGED validationVars

\* lines 288-305
FormatTrailer ==
    /\ pc = "forTransaction"
    /\ txIndex > Len(getTransactions)
    /\ LET trailer == formatTrailer(getConfiguration, recordCount,
                                    totalValueDebits, totalNumberDebits,
                                    totalValueCredits, totalNumberCredits)
       IN  /\ outputLines' = Append(outputLines, trailer)
           /\ result' = join(Append(outputLines, trailer), "\r\n")
    /\ returned' = TRUE
    /\ pc' = "done"
    /\ UNCHANGED << recordCount, record, txIndex, segmentIndex,
                    totalValueDebits, totalNumberDebits, totalValueCredits,
                    totalNumberCredits >>
    /\ UNCHANGED validationVars

Next ==
    \/ ValidateConfig
    \/ ValidateTransactionsBegin
    \/ ValidateTransaction
    \/ ValidateReturn
    \/ FormatHeader
    \/ BeginTransaction
    \/ EncodeSegment
    \/ EndTransaction
    \/ FormatTrailer

Spec == Init /\ [][Next]_vars

(***************************************************************************)
(* Reading the emitted text back, and what the input calls for.            *)
(***************************************************************************)
\* the len characters of line that follow its first off characters
Field(line, off, len) == SubSeq(line, off + 1, off + len)

DigitValue(c) == CHOOSE d \in 0..9 : DigitChar(d) = c

RECURSIVE ParseNat(_)
ParseNat(s) ==
    IF s = "" THEN 0
    ELSE ParseNat(SubSeq(s, 1, Len(s) - 1)) * 10
         + DigitValue(SubSeq(s, Len(s), Len(s)))

\* the sequence number field of a physical record
SequenceOf(line) == ParseNat(Field(line, 1, 9))

\* number of physical records n segments are packed into
Chunks(n) == (n + 5) \div 6

RECURSIVE RecordsBefore(_)
RecordsBefore(t) ==
    IF t <= 1 THEN 0
    ELSE RecordsBefore(t - 1) + Chunks(Len(transactions[t - 1].segments))

DetailRecords == RecordsBefore(Len(transactions) + 1)

\* index in outputLines of the k-th record of transaction t
LineOf(t, k) == 1 + RecordsBefore(t) + k

\* every segment of the input, in the order validation meets them
RECURSIVE SegmentsUpTo(_)
SegmentsUpTo(t) ==
    IF t = 0 THEN << >>
    ELSE SegmentsUpTo(t - 1) \o
         [i \in 1..Len(transactions[t].segments) |->
             [type |-> transactions[t].recordType,
              seg  |-> transactions[t].segments[i]]]

AllSegments == SegmentsUpTo(Len(transactions))

RECURSIVE SumAmounts(_, _)
SumAmounts(all, type) ==
    IF Len(all) = 0 THEN ZeroAmount
    ELSE LET rest == SumAmounts(Tail(all), type)
         IN  IF Head(all).type = type THEN AddAmount(Head(all).seg.amount, rest)
             ELSE rest

CountSegments(all, type) ==
    Cardinality({i \in 1..Len(all) : all[i].type = type})

\* widths of the parts of a segment's text whose width depends on the input
CpaWidth(segment) == Len(toString(segment.cpaCode))
AmountWidth(segment) == Max(10, Len(CentsToString(segment.amount)))
TraceWidth(segment) ==
    IF segment.itemTraceNumber = Undefined THEN 22
    ELSE Len(segment.itemTraceNumber) + 4
SegmentWidth(segment) ==
    CpaWidth(segment) + AmountWidth(segment) + 27 + TraceWidth(segment) + 178

\* offset in its record of the text of segment i (1-based) of transaction t
RECURSIVE SegmentOffset(_, _)
SegmentOffset(t, i) ==
    IF (i - 1) % 6 = 0 THEN 24
    ELSE SegmentOffset(t, i - 1)
         + SegmentWidth(transactions[t].segments[i - 1])

\* the physical record that holds segment i of transaction t
RecordOf(t, i) == outputLines[LineOf(t, ((i - 1) \div 6) + 1)]

SegmentPlaces ==
    {p \in (1..Len(transactions)) \X (1..MaxSegments + 1) :
        p[2] <= Len(transactions[p[1]].segments)}

(***************************************************************************)
(* C1: for every accepted configuration and transaction list, every line   *)
(* formatToCPA005 emits (header, detail records including the ones emitted *)
(* at a split, trailer) is exactly 1464 characters long.                   *)
(* The code does not keep this: see C1_ShortRecord and C1_LongRecord.      *)
(***************************************************************************)
C1_EveryLineHas1464 ==
    \A i \in 1..Len(outputLines) : Len(outputLines[i]) = 1464

\* an accepted input whose record, emitted at a split, is shorter
C1_ShortRecord ==
    pc = "done" /\ \E i \in 1..Len(outputLines) : Len(outputLines[i]) < 1464
\* an accepted input whose record is longer
C1_LongRecord ==
    pc = "done" /\ \E i \in 1..Len(outputLines) : Len(outputLines[i]) > 1464

(***************************************************************************)
(* C2: in the trailer the total debit amount in cents and the total debit  *)
(* count are the sum and the number of the segments of Debit transactions, *)
(* and likewise for Credit.                                                *)
(* The code counts physical records, not segments.                         *)
(***************************************************************************)
Trailer == outputLines[Len(outputLines)]

C2_TrailerTotalsPerSegment ==
    pc = "done" =>
        /\ Field(Trailer, 24, 14) =
              padStart(CentsToString(SumAmounts(AllSegments, "D")), 14, "0")
        /\ ParseNat(Field(Trailer, 38, 8)) = CountSegments(AllSegments, "D")
        /\ Field(Trailer, 46, 14) =
              padStart(CentsToString(SumAmounts(AllSegments, "C")), 14, "0")
        /\ ParseNat(Field(Trailer, 60, 8)) = CountSegments(AllSegments, "C")

\* what the code does keep: the amounts are per segment
C2_TrailerAmounts ==
    pc = "done" =>
        /\ Field(Trailer, 24, 14) =
              padStart(CentsToString(SumAmounts(AllSegments, "D")), 14, "0")
        /\ Field(Trailer, 46, 14) =
              padStart(CentsToString(SumAmounts(AllSegments, "C")), 14, "0")

(***************************************************************************)
(* C3: a transaction of n >= 1 segments becomes exactly ceil(n/6)          *)
(* consecutive detail records, each starting with its record type letter,  *)
(* the k-th holding its segments 6(k-1)+1 .. min(6k, n) in order, nothing  *)
(* dropped or duplicated; 7 segments give 2 records, the second holding    *)
(* only the 7th.                                                           *)
(***************************************************************************)
RECURSIVE SegmentsText(_, _, _, _)
SegmentsText(t, from, to, seq) ==
    IF from > to THEN ""
    ELSE SegmentsText(t, from, to - 1, seq)
         \o SegmentText(config, transactions[t].segments[to], seq, to - 1)

\* record k of transaction t is the prefix, then exactly the segments
\* 6(k-1)+1 .. min(6k, n), then blanks
HoldsChunk(t, k) ==
    LET n == Len(transactions[t].segments)
        line == outputLines[LineOf(t, k)]
        body == RecordPrefix(config, transactions[t].recordType, LineOf(t, k))
                \o SegmentsText(t, 6 * (k - 1) + 1, Min(6 * k, n), LineOf(t, k))
    IN  /\ Field(line, 0, 1) = transactions[t].recordType
        /\ Len(line) >= Len(body)
        /\ Field(line, 0, Len(body)) = body
        /\ Field(line, Len(body), Len(line) - Len(body))
              = Repeat(" ", Len(line) - Len(body))

C3_SegmentsPackedBySix ==
    pc = "done" =>
        /\ Len(outputLines) = DetailRecords + 2
        /\ \A t \in 1..Len(transactions) :
              \A k \in 1..Chunks(Len(transactions[t].segments)) : HoldsChunk(t, k)

C3_Witness ==
    /\ pc = "done"
    /\ \E t \in 1..Len(transactions) :
          /\ Len(transactions[t].segments) = 7
          /\ Len(outputLines) >= LineOf(t, 2)
          /\ t < Len(transactions)

(***************************************************************************)
(* C4: the lines are the header, then the detail records in transaction    *)
(* order, then the trailer; the header carries sequence number 1, the      *)
(* detail records 2, 3, 4, ... without gap or repeat across transactions,  *)
(* and the trailer the last detail record's number plus 1, which is the    *)
(* number of lines.                                                        *)
(***************************************************************************)
C4_OrderAndSequence ==
    /\ \A i \in 1..Len(outputLines) : SequenceOf(outputLines[i]) = i
    /\ pc = "done" =>
          /\ Len(outputLines) = DetailRecords + 2
          /\ Field(outputLines[1], 0, 1) = "A"
          /\ Field(Trailer, 0, 1) = "Z"
          /\ \A t \in 1..Len(transactions) :
                \A k \in 1..Chunks(Len(transactions[t].segments)) :
                    Field(outputLines[LineOf(t, k)], 0, 1)
                        = transactions[t].recordType

C4_Witness ==
    /\ pc = "done"
    /\ Len(outputLines) >= 6
    /\ \E t \in 2..Len(transactions) :
          /\ transactions[t].recordType # transactions[t - 1].recordType
          /\ Len(transactions[t].segments) > 0
          /\ Len(transactions[t - 1].segments) > 6

(***************************************************************************)
(* C5: export validates everything before it encodes anything: with a      *)
(* fatal condition anywhere in the configuration, a transaction or a       *)
(* segment the call fails and returns no text (no header, no partial       *)
(* list); with warnings only it returns the complete text, header, all     *)
(* detail records and trailer.                                             *)
(***************************************************************************)
FatalConfiguration(c) ==
    \/ Len(c.originatorId) > 10
    \/ ~TestDigits(c.fileCreationNumber, 1, 4)
    \/ c.destinationDataCentre # Undefined
          /\ ~TestDigits(c.destinationDataCentre, 0, 5)
    \/ c.destinationCurrency # Undefined
          /\ c.destinationCurrency \notin {"CAD", "USD"}

FatalAmount(segment) ==
    \/ segment.amount.d < 0
    \/ segment.amount.d = 0 /\ segment.amount.m = 0
    \/ segment.amount.d >= 100000000

FatalSegment(segment) ==
    \/ FatalAmount(segment)
    \/ ~TestDigits(segment.bankInstitutionNumber, 1, 3)
    \/ ~TestDigits(segment.bankTransitNumber, 1, 5)
    \/ ~TestDigits(segment.bankAccountNumber, 1, 12)

FatalTransaction(tx) ==
    \/ tx.recordType \notin {"C", "D"}
    \/ \E i \in 1..Len(tx.segments) : FatalSegment(tx.segments[i])

AnyFatal ==
    \/ FatalConfiguration(callConfig)
    \/ \E t \in 1..Len(transactions) : FatalTransaction(transactions[t])

C5_ValidateThenEncode ==
    /\ AnyFatal =>
          /\ outputLines = << >> /\ ~returned /\ result = ""
          /\ pc \in {"validateConfig", "validateTransactions", "validateLoop",
                     "failed"}
    /\ pc = "failed" => AnyFatal /\ error # NoError
    /\ pc = "done" =>
          /\ returned
          /\ Len(outputLines) = DetailRecords + 2
          /\ Field(outputLines[1], 0, 1) = "A"
          /\ Field(Trailer, 0, 1) = "Z"
          /\ result = join(outputLines, "\r\n")

C5_Witness ==
    /\ pc = "failed"
    /\ vIndex = Len(transactions)
    /\ vIndex >= 2
    /\ txWarnings > 0
    /\ outputLines = << >>

(***************************************************************************)
(* C6: a segment amount is rejected as fatal when it is <= 0 or            *)
(* >= $100,000,000 and accepted otherwise; every accepted amount is        *)
(* written into the detail record as its value in cents, zero-padded on    *)
(* the left to exactly 10 digits.                                          *)
(* The code writes 11 digits for an accepted amount of $99,999,999.995 or  *)
(* more.                                                                   *)
(***************************************************************************)
AmountErrors ==
    { "Segment amount cannot be less than or equal to zero",
      "Segment amount cannot exceed $100,000,000" }

C6_AmountRejectedOrTenDigits ==
    /\ (\E p \in SegmentPlaces : FatalAmount(transactions[p[1]].segments[p[2]]))
          => outputLines = << >> /\ pc # "done"
    /\ error \in AmountErrors
          => FatalAmount(transactions[vIndex].segments[
                 CHOOSE i \in 1..Len(transactions[vIndex].segments) :
                     FatalSegment(transactions[vIndex].segments[i])
                     /\ \A j \in 1..(i - 1) :
                           ~FatalSegment(transactions[vIndex].segments[j])])
    /\ pc = "done" =>
          \A p \in SegmentPlaces :
              LET segment == transactions[p[1]].segments[p[2]]
                  cents == CentsToString(segment.amount)
                  off == SegmentOffset(p[1], p[2]) + CpaWidth(segment)
              IN  /\ Len(cents) <= 10
                  /\ Field(RecordOf(p[1], p[2]), off, 10)
                        = Repeat("0", 10 - Len(cents)) \o cents

\* the accepted amount the code gives 11 digits
C6_ElevenDigits ==
    /\ pc = "done"
    /\ \E p \in SegmentPlaces :
          Len(CentsToString(transactions[p[1]].segments[p[2]].amount)) > 10

(***************************************************************************)
(* C7: a segment without cross-reference number gets the fallback          *)
(* f<fileCreationNumber>r<recordSeq>s<segmentPosition> in its              *)
(* cross-reference field, recordSeq being the sequence number of the       *)
(* physical record that contains it and segmentPosition its 1-based        *)
(* position; two segments with the same supplied number make validation    *)
(* add a warning and are both encoded with the supplied value.             *)
(***************************************************************************)
Supplied(segment) == segment.crossReferenceNumber # Undefined

\* segments whose supplied number was supplied by an earlier segment
Repeats(all) ==
    {i \in 1..Len(all) :
        /\ Supplied(all[i].seg)
        /\ \E j \in 1..(i - 1) :
              all[j].seg.crossReferenceNumber = all[i].seg.crossReferenceNumber}

CrossReferenceField(t, i) ==
    LET segment == transactions[t].segments[i]
    IN  Field(RecordOf(t, i),
              SegmentOffset(t, i) + CpaWidth(segment) + AmountWidth(segment)
                  + 27 + TraceWidth(segment) + 88,
              19)

C7_CrossReference ==
    pc = "done" =>
        /\ \A p \in SegmentPlaces :
              LET segment == transactions[p[1]].segments[p[2]]
                  wanted ==
                      IF Supplied(segment) THEN segment.crossReferenceNumber
                      ELSE "f" \o callConfig.fileCreationNumber
                           \o "r" \o toString(SequenceOf(RecordOf(p[1], p[2])))
                           \o "s" \o toString(p[2])
              IN  CrossReferenceField(p[1], p[2])
                      = Field(wanted \o Repeat(" ", 19), 0, 19)
        /\ txWarnings >= Cardinality(Repeats(AllSegments))
        /\ Repeats(AllSegments) # {} => warningCount > 0

C7_Witness ==
    /\ pc = "done"
    /\ Repeats(AllSegments) # {}
    /\ \E p \in SegmentPlaces :
          /\ p[2] > 6
          /\ ~Supplied(transactions[p[1]].segments[p[2]])
          /\ p[1] > 1

(***************************************************************************)
(* C8: a transaction with zero segments, at any position of the list,      *)
(* makes formatToCPA005 emit no detail record and consume no sequence      *)
(* number, and makes validation add exactly one warning for it.            *)
(***************************************************************************)
C8_EmptyTransaction ==
    [][ /\ (pc \in {"forTransaction", "forSegment"}
              /\ txIndex <= Len(transactions)
              /\ Len(transactions[txIndex].segments) = 0)
           => /\ outputLines' = outputLines
              /\ recordCount' = recordCount
              /\ pc = "forSegment" =>
                    (pc' = "forTransaction" /\ txIndex' = txIndex + 1)
        /\ (pc = "validateLoop"
              /\ vIndex <= Len(transactions)
              /\ Len(transactions[vIndex].segments) = 0
              /\ transactions[vIndex].recordType \in {"C", "D"})
           => /\ txWarnings' = txWarnings + 1
              /\ vIndex' = vIndex + 1
              /\ pc' = "validateLoop" ]_vars

C8_Witness ==
    /\ pc = "forTransaction"
    /\ Len(transactions) = 3
    /\ txIndex = 3
    /\ Len(transactions[2].segments) = 0
    /\ Len(outputLines) = 2
    /\ recordCount = 2

(***************************************************************************)
(* C9: validateTransactions scans the list in order, accumulating          *)
(* warnings and stopping only at a fatal condition.  Without a fatal       *)
(* condition it returns (1 if the list is empty) + the transactions with   *)
(* zero segments + those with more than 6 + the segments with an           *)
(* unrecognized CPA code + those with a payee name over 30 characters +    *)
(* those whose supplied cross-reference number an earlier segment          *)
(* supplied; with one it fails at the first met in scan order and returns  *)
(* no count.                                                               *)
(***************************************************************************)
ExpectedWarnings ==
    (IF Len(transactions) = 0 THEN 1 ELSE 0)
    + Cardinality({t \in 1..Len(transactions) :
                      Len(transactions[t].segments) = 0})
    + Cardinality({t \in 1..Len(transactions) :
                      Len(transactions[t].segments) > 6})
    + Cardinality({i \in 1..Len(AllSegments) :
                      AllSegments[i].seg.cpaCode \notin CPACodeTable})
    + Cardinality({i \in 1..Len(AllSegments) :
                      Len(AllSegments[i].seg.payeeName) > 30})
    + Cardinality(Repeats(AllSegments))

\* the message of the first check, in the order of the code, a segment fails
SegmentMessage(segment) ==
    IF segment.amount.d < 0 \/ (segment.amount.d = 0 /\ segment.amount.m = 0)
    THEN "Segment amount cannot be less than or equal to zero"
    ELSE IF segment.amount.d >= 100000000
    THEN "Segment amount cannot exceed $100,000,000"
    ELSE IF ~TestDigits(segment.bankInstitutionNumber, 1, 3)
    THEN "bankInstitutionNumber should be 1 to 3 digits"
    ELSE IF ~TestDigits(segment.bankTransitNumber, 1, 5)
    THEN "bankTransitNumber should be 1 to 5 digits"
    ELSE "bankAccountNumber should be 1 to 12 digits"

FirstFatalTransaction ==
    CHOOSE t \in 1..Len(transactions) :
        /\ FatalTransaction(transactions[t])
        /\ \A u \in 1..(t - 1) : ~FatalTransaction(transactions[u])

FirstFatalMessage ==
    LET tx == transactions[FirstFatalTransaction]
    IN  IF tx.recordType \notin {"C", "D"} THEN "Unsupported recordType"
        ELSE SegmentMessage(tx.segments[
                 CHOOSE i \in 1..Len(tx.segments) :
                     /\ FatalSegment(tx.segments[i])
                     /\ \A j \in 1..(i - 1) : ~FatalSegment(tx.segments[j])])

SomeFatalTransaction ==
    \E t \in 1..Len(transactions) : FatalTransaction(transactions[t])

C9_WarningsCountedFatalFirst ==
    /\ pc \in {"formatHeader", "forTransaction", "forSegment", "done"} =>
          /\ ~SomeFatalTransaction
          /\ txWarnings = ExpectedWarnings
          /\ warningCount = configWarnings + ExpectedWarnings
    /\ (pc = "validateLoop" /\ vIndex > Len(transactions)) =>
          /\ ~SomeFatalTransaction
          /\ txWarnings = ExpectedWarnings
    /\ (pc = "failed" /\ ~FatalConfiguration(callConfig)) =>
          /\ SomeFatalTransaction
          /\ vIndex = FirstFatalTransaction
          /\ error = FirstFatalMessage
          /\ warningCount = NoCount
          /\ ~returned

C9_Witness ==
    /\ pc = "failed"
    /\ vIndex = 2
    /\ Cardinality({t \in 1..Len(transactions) :
                       FatalTransaction(transactions[t])}) = 2
    /\ Cardinality({i \in 1..Len(transactions[2].segments) :
                       FatalSegment(transactions[2].segments[i])}) > 1
    /\ error = "bankAccountNumber should be 1 to 12 digits"

(***************************************************************************)
(* C10: an export that fails with a fatal condition leaves the generator's *)
(* state exactly as it was before the call, configuration (including an    *)
(* absent originatorShortName) and transaction list, also when the fatal   *)
(* condition is found after the short-name default step.                   *)
(* The code has by then written the long name into an absent short name.   *)
(***************************************************************************)
C10_FailedExportChangesNothing ==
    pc = "failed" => config = callConfig /\ transactions = callTransactions

\* the fatal conditions validateConfig checks before the short-name default
FatalBeforeDefault(c) ==
    \/ Len(c.originatorId) > 10
    \/ ~TestDigits(c.fileCreationNumber, 1, 4)
    \/ c.destinationDataCentre # Undefined
          /\ ~TestDigits(c.destinationDataCentre, 0, 5)

\* C10 as amended: a failed export leaves the transaction list and every
\* configuration field but originatorShortName as they were; the short name
\* is as it was when it was present or the failure came before the default
\* step, and is the long name otherwise.
C10_FailedExportChangesShortNameOnly ==
    pc = "failed" =>
        /\ transactions = callTransactions
        /\ config = [callConfig EXCEPT !.originatorShortName =
                        IF @ = Undefined /\ ~FatalBeforeDefault(callConfig)
                        THEN callConfig.originatorLongName
                        ELSE @]

C10_Witness ==
    /\ pc = "failed"
    /\ vIndex >= 1
    /\ callConfig.originatorShortName = Undefined
    /\ config.originatorShortName = callConfig.originatorLongName
    /\ error = "Segment amount cannot exceed $100,000,000"

====
